---- MODULE Spec2Model ----
(***************************************************************************)
(* The postgresql grant model of sqlalchemy-declarative-extensions:        *)
(* Grant, DefaultGrant, GrantStatement and DefaultGrantStatement           *)
(* (dialects/postgresql/grant.py), their builder operations, explode,      *)
(* invert and to_sql, and the comparison of a declared collection of       *)
(* statements against the live privileges.                                 *)
(*                                                                         *)
(* Python values are modelled as follows.  A str is a TLA+ string.  An     *)
(* object that satisfies the HasName protocol is one of the strings of     *)
(* HasNameObjects, and its .name attribute is NameAttr[obj].  A member of  *)
(* a privilege enumeration (a GrantOptions) is one of the strings of       *)
(* GrantOptions, "TableGrants.select", and its .value is                   *)
(* OptionValue[member].  None is the string NoneValue where a field is     *)
(* Optional, and an absent value of a variable is the empty sequence:      *)
(* <<>> is "nothing yet", <<v>> is the value v.  The text of to_sql is     *)
(* the list `result` the method joins with " ", each element itself the    *)
(* sequence of the words it is assembled from.                             *)
(***************************************************************************)
EXTENDS Naturals, Sequences, FiniteSets, TLC

\* ------------------------------------------------------------ bounds
\* Longest privilege argument list passed to Grant.new / DefaultGrant.grant.
MaxPrivs == 2
\* Longest list of object names passed to on_objects.
MaxTargets == 2
\* Longest list of schemas passed to DefaultGrant.on_*_in_schema.
MaxSchemas == 2
\* Most (privilege, target) pairs the declared collection holds in total.
MaxDeclaredUnits == 2
\* Most privileges granted in the database before the first compare pass.
MaxLive == 2
\* Most compare passes made.
MaxPasses == 2

NoneValue == "<None>"

\* ------------------------------------------------------------ strings
\* Role, table and schema names, and the privilege spellings callers pass.
RoleNames == {"o2_read", "o2_write"}
TableNames == {"bar", "foo"}
SchemaNames == {"app", "public"}
RawPrivs == {"insert", "select", "usage"}

\* Objects with a .name attribute (the HasName protocol).
HasNameObjects == {"Role(o2_read)", "Table(foo)", "Schema(public)"}

NameAttr == [o \in HasNameObjects |->
                CASE o = "Role(o2_read)" -> "o2_read"
                  [] o = "Table(foo)" -> "foo"
                  [] o = "Schema(public)" -> "public"]

\* Python compares str by code point; the strings of the model in that order.
CodepointOrder == <<"app", "bar", "foo", "insert", "o2_read", "o2_write",
                    "public", "select", "usage">>

\* The resolved name of a role, table or schema argument.
coerce_name(name) == IF name \in HasNameObjects THEN NameAttr[name] ELSE name

\* ------------------------------------------------------------ privilege vocabulary
GrantTypes == {"TABLE", "SCHEMA"}
DefaultGrantTypes == {"TABLE", "SEQUENCE", "TYPE", "FUNCTION"}

\* The members of the privilege enumerations (a part of each).
GrantOptions == {"TableGrants.insert", "TableGrants.select", "SchemaGrants.usage",
                 "SequenceGrants.select", "SequenceGrants.usage",
                 "TypeGrants.usage", "FunctionGrants.execute"}

OptionValue == [o \in GrantOptions |->
                 CASE o \in {"TableGrants.insert"} -> "INSERT"
                   [] o \in {"TableGrants.select", "SequenceGrants.select"} -> "SELECT"
                   [] o \in {"SchemaGrants.usage", "SequenceGrants.usage",
                             "TypeGrants.usage"} -> "USAGE"
                   [] o = "FunctionGrants.execute" -> "EXECUTE"]

\* grant_type.to_variants(): the enumeration of an object type.
to_variants(grant_type) ==
    CASE grant_type = "TABLE" -> {"TableGrants.insert", "TableGrants.select"}
      [] grant_type = "SCHEMA" -> {"SchemaGrants.usage"}
      [] grant_type = "SEQUENCE" -> {"SequenceGrants.select", "SequenceGrants.usage"}
      [] grant_type = "TYPE" -> {"TypeGrants.usage"}
      [] grant_type = "FUNCTION" -> {"FunctionGrants.execute"}

\* str.upper() on the privilege spellings.
Upper == [s \in RawPrivs |->
            CASE s = "insert" -> "INSERT"
              [] s = "select" -> "SELECT"
              [] s = "usage" -> "USAGE"]

\* variant.from_string(s) succeeds: the upper-cased spelling is a member's value.
can_from_string(variant, s) == \E o \in variant : OptionValue[o] = Upper[s]

\* variant.from_string(s): the member whose value is the upper-cased spelling.
from_string(variant, s) == CHOOSE o \in variant : OptionValue[o] = Upper[s]

\* The members in their sort order (by value), then the spellings by code point.
SortOrder == <<"FunctionGrants.execute", "TableGrants.insert",
               "SequenceGrants.select", "TableGrants.select",
               "SchemaGrants.usage", "SequenceGrants.usage", "TypeGrants.usage">>
             \o CodepointOrder

Rank(x) == CHOOSE i \in 1..Len(SortOrder) : SortOrder[i] = x

\* ------------------------------------------------------------ sequences
Range(s) == {s[i] : i \in 1..Len(s)}

SeqsUpTo(S, n) == UNION {[1..k -> S] : k \in 1..n}

RECURSIVE Insert(_, _)
\* x placed after the elements of the sorted sequence s that are not greater.
Insert(s, x) ==
    IF s = <<>> THEN <<x>>
    ELSE IF Rank(x) < Rank(Head(s)) THEN <<x>> \o s
    ELSE <<Head(s)>> \o Insert(Tail(s), x)

RECURSIVE sorted(_)
\* Python's sorted(): ascending, every element kept.
sorted(s) == IF s = <<>> THEN <<>> ELSE Insert(sorted(SubSeq(s, 1, Len(s) - 1)), s[Len(s)])

\* ------------------------------------------------------------ helpers of grant.py
\* _map_schema_names(*schemas)
map_schema_names(schemas) == sorted([i \in 1..Len(schemas) |-> coerce_name(schemas[i])])

\* _map_grant_names raises when from_string rejects a spelling.
can_map_grant_names(variant, grants) ==
    \A i \in 1..Len(grants) :
        grants[i] \in GrantOptions \/ can_from_string(variant, grants[i])

\* _map_grant_names(variant, *grants)
map_grant_names(variant, grants) ==
    sorted([i \in 1..Len(grants) |->
              IF grants[i] \in GrantOptions THEN grants[i]
              ELSE from_string(variant, grants[i])])

\* ------------------------------------------------------------ Grant
MkGrant(grants, target_role, grant_option, revoke_) ==
    [grants |-> grants, target_role |-> target_role,
     grant_option |-> grant_option, revoke_ |-> revoke_]

\* Grant.new(grant, *grants, to, grant_option)
Grant_new(grants, to, grant_option) ==
    MkGrant(sorted(grants), coerce_name(to), grant_option, FALSE)

\* A Grant.revoke() that builds the Grant anew and leaves grant_option at its default.
Grant_revoke_drops_option(self) ==
    MkGrant(self.grants, self.target_role, FALSE, TRUE)

\* Grant.revoke()
Grant_revoke(self) == [self EXCEPT !.revoke_ = TRUE]

\* Grant.with_grant_option()
Grant_with_grant_option(self) == [self EXCEPT !.grant_option = TRUE]

\* GrantStatement(grant, grant_type, targets)
MkGrantStatement(grant, grant_type, targets) ==
    [cls |-> "GrantStatement", grant |-> grant, grant_type |-> grant_type,
     targets |-> targets]

\* Grant.on_objects(*objects, object_type), when _map_grant_names does not raise.
Grant_on_objects(self, objects, object_type) ==
    MkGrantStatement(
        [self EXCEPT !.grants = map_grant_names(to_variants(object_type), self.grants)],
        object_type,
        [i \in 1..Len(objects) |-> coerce_name(objects[i])])

\* ------------------------------------------------------------ DefaultGrant
MkDefaultGrant(grant_type, in_schemas, target_role) ==
    [grant_type |-> grant_type, in_schemas |-> in_schemas, target_role |-> target_role]

\* The body shared by the four on_*_in_schema classmethods.
DefaultGrant_in_schema(grant_type, in_schemas, for_role) ==
    MkDefaultGrant(grant_type, map_schema_names(in_schemas),
                   IF for_role # NoneValue THEN coerce_name(for_role) ELSE NoneValue)

\* DefaultGrant.on_tables_in_schema(*in_schemas, for_role)
DefaultGrant_on_tables_in_schema(in_schemas, for_role) ==
    DefaultGrant_in_schema("TABLE", in_schemas, for_role)

\* DefaultGrant.on_sequences_in_schema(*in_schemas, for_role)
DefaultGrant_on_sequences_in_schema(in_schemas, for_role) ==
    DefaultGrant_in_schema("SEQUENCE", in_schemas, for_role)

\* DefaultGrant.on_types_in_schema(*in_schemas, for_role)
DefaultGrant_on_types_in_schema(in_schemas, for_role) ==
    DefaultGrant_in_schema("TYPE", in_schemas, for_role)

\* DefaultGrant.on_functions_in_schema(*in_schemas, for_role)
DefaultGrant_on_functions_in_schema(in_schemas, for_role) ==
    DefaultGrant_in_schema("FUNCTION", in_schemas, for_role)

\* DefaultGrant.for_role(role)
DefaultGrant_for_role(self, role) == [self EXCEPT !.target_role = role]

\* DefaultGrantStatement(default_grant, grant)
MkDefaultGrantStatement(default_grant, grant) ==
    [cls |-> "DefaultGrantStatement", default_grant |-> default_grant, grant |-> grant]

\* DefaultGrant.grant(grant, *grants, to, grant_option) with privilege spellings,
\* when _map_grant_names does not raise.
DefaultGrant_grant(self, grants, to, grant_option) ==
    MkDefaultGrantStatement(
        self,
        MkGrant(map_grant_names(to_variants(self.grant_type), grants),
                to, grant_option, FALSE))

\* DefaultGrant.grant(grant, to=...) with a Grant: the Grant is taken as it is.
DefaultGrant_grant_Grant(self, grant) == MkDefaultGrantStatement(self, grant)

\* ------------------------------------------------------------ statements
\* DefaultGrantStatement.for_role(role)
DefaultGrantStatement_for_role(self, role) ==
    [self EXCEPT !.default_grant = [self.default_grant EXCEPT !.target_role = role]]

\* DefaultGrantStatement.invert()
DefaultGrantStatement_invert(self) ==
    [self EXCEPT !.grant = [self.grant EXCEPT !.revoke_ = ~self.grant.revoke_]]

\* A GrantStatement.invert() that sets the flag instead of negating it.
GrantStatement_invert_sets(self) ==
    [self EXCEPT !.grant = [self.grant EXCEPT !.revoke_ = TRUE]]

\* GrantStatement.invert()
GrantStatement_invert(self) ==
    [self EXCEPT !.grant = [self.grant EXCEPT !.revoke_ = ~self.grant.revoke_]]

\* GrantStatement.for_role(role)
GrantStatement_for_role(self, role) ==
    [self EXCEPT !.grant = [self.grant EXCEPT !.target_role = coerce_name(role)]]

\* A GrantStatement.explode() that builds each Grant without grant_option.
GrantStatement_explode_no_option(self) ==
    LET n == Len(self.grant.grants)
    IN  [k \in 1..(Len(self.targets) * n) |->
            MkGrantStatement(
                MkGrant(<<self.grant.grants[((k - 1) % n) + 1]>>,
                        self.grant.target_role,
                        FALSE,
                        self.grant.revoke_),
                self.grant_type,
                <<self.targets[((k - 1) \div n) + 1]>>)]

\* A GrantStatement.explode() that stops after the first target.
GrantStatement_explode_first_target(self) ==
    [k \in 1..Len(self.grant.grants) |->
        MkGrantStatement(
            MkGrant(<<self.grant.grants[k]>>,
                    self.grant.target_role,
                    self.grant.grant_option,
                    self.grant.revoke_),
            self.grant_type,
            <<self.targets[1]>>)]

\* GrantStatement.explode(): for target in targets, for grant in grants.
GrantStatement_explode(self) ==
    LET n == Len(self.grant.grants)
    IN  [k \in 1..(Len(self.targets) * n) |->
            MkGrantStatement(
                MkGrant(<<self.grant.grants[((k - 1) % n) + 1]>>,
                        self.grant.target_role,
                        self.grant.grant_option,
                        self.grant.revoke_),
                self.grant_type,
                <<self.targets[((k - 1) \div n) + 1]>>)]

\* ------------------------------------------------------------ rendering
\* _render_grant_or_revoke(grant)
render_grant_or_revoke(grant) == IF grant.revoke_ THEN <<"REVOKE">> ELSE <<"GRANT">>

\* _render_to_or_from(grant)
render_to_or_from(grant) ==
    IF grant.revoke_ THEN <<"FROM", grant.target_role>> ELSE <<"TO", grant.target_role>>

\* from_strings raises when a spelling is no member of the enumeration.
can_render_privilege(grant, grant_type) ==
    can_map_grant_names(to_variants(grant_type), grant.grants)

\* _render_privilege(grant, grant_type): the members' values, in the order of grants.
render_privilege(grant, grant_type) ==
    [i \in 1..Len(grant.grants) |->
        OptionValue[IF grant.grants[i] \in GrantOptions THEN grant.grants[i]
                    ELSE from_string(to_variants(grant_type), grant.grants[i])]]

\* _render_grant_option(grant): <<>> is None.
render_grant_option(grant) ==
    IF grant.grant_option THEN <<"WITH GRANT OPTION">> ELSE <<>>

\* DefaultGrantStatement.to_sql(): the list `result`.
DefaultGrantStatement_to_sql(self) ==
    << <<"ALTER DEFAULT PRIVILEGES">> >>
    \o (IF self.default_grant.target_role \notin {NoneValue, ""}
        THEN << <<"FOR ROLE", self.default_grant.target_role>> >> ELSE <<>>)
    \o << <<"IN SCHEMA">> \o self.default_grant.in_schemas,
          render_grant_or_revoke(self.grant),
          render_privilege(self.grant, self.default_grant.grant_type),
          <<"ON", self.default_grant.grant_type, "S">>,
          render_to_or_from(self.grant) >>

\* GrantStatement.to_sql(): the list `result`.
GrantStatement_to_sql(self) ==
    << render_grant_or_revoke(self.grant),
       render_privilege(self.grant, self.grant_type),
       <<"ON", self.grant_type>>,
       self.targets,
       render_to_or_from(self.grant) >>
    \o (LET grant_option == render_grant_option(self.grant)
        IN  IF grant_option # <<>> THEN <<grant_option>> ELSE <<>>)

\* ------------------------------------------------------------ state
VARIABLES
    grant,      \* <<>> or <<the Grant built so far>>
    dgrant,     \* <<>> or <<the DefaultGrant built so far>>
    stmt,       \* <<>> or <<the GrantStatement / DefaultGrantStatement built>>
    exploded,   \* <<>> or <<the list returned by the last explode()>>
    sql,        \* <<>> or <<the list `result` of the last to_sql()>>
    last,       \* the name of the last operation called
    err,        \* "" or the exception the last operation raised
    declared,   \* the declared collection of statements
    live,       \* the live privileges, a set of atomic units
    scope,      \* the role the scope filter restricts management to, once chosen
    ops,        \* <<>> or <<the operation list of the last compare pass>>
    passes      \* the number of compare passes made

builderVars == <<grant, dgrant, stmt, exploded, sql, last, err>>
diffVars == <<declared, live, scope, ops, passes>>
vars == <<grant, dgrant, stmt, exploded, sql, last, err,
          declared, live, scope, ops, passes>>

\* The arguments callers pass.
PrivArgs == SeqsUpTo(RawPrivs, MaxPrivs)
RoleArgs == RoleNames \cup {"Role(o2_read)"}
ObjectArgs(object_type) ==
    IF object_type = "TABLE" THEN SeqsUpTo(TableNames \cup {"Table(foo)"}, MaxTargets)
    ELSE SeqsUpTo(SchemaNames \cup {"Schema(public)"}, MaxTargets)
SchemaArgs == SeqsUpTo(SchemaNames \cup {"Schema(public)"}, MaxSchemas)

BuilderInit ==
    /\ grant = <<>>
    /\ dgrant = <<>>
    /\ stmt = <<>>
    /\ exploded = <<>>
    /\ sql = <<>>
    /\ last = "init"
    /\ err = ""

DiffIdle ==
    /\ declared = <<>>
    /\ live = {}
    /\ scope = NoneValue
    /\ ops = <<>>
    /\ passes = 0

Init == BuilderInit /\ DiffIdle

\* The outcome of a call that returns: no exception, no stale results.
Returned(name) ==
    /\ last' = name
    /\ err' = ""
    /\ exploded' = <<>>
    /\ sql' = <<>>

\* The outcome of a call that raises: nothing is built.
Raised(name, exception) ==
    /\ last' = name
    /\ err' = exception
    /\ exploded' = <<>>
    /\ sql' = <<>>

\* Grant.new(grant, *grants, to=..., grant_option=...)
New ==
    /\ grant = <<>>
    /\ dgrant = <<>>
    /\ stmt = <<>>
    /\ \E grants \in PrivArgs, to \in RoleArgs, grant_option \in BOOLEAN :
          grant' = <<Grant_new(grants, to, grant_option)>>
    /\ Returned("Grant.new")
    /\ UNCHANGED <<dgrant, stmt>>
    /\ UNCHANGED diffVars

\* grant.revoke()
Revoke ==
    /\ grant # <<>>
    /\ stmt = <<>>
    /\ grant' = <<Grant_revoke(grant[1])>>
    /\ Returned("Grant.revoke")
    /\ UNCHANGED <<dgrant, stmt>>
    /\ UNCHANGED diffVars

\* grant.with_grant_option()
WithGrantOption ==
    /\ grant # <<>>
    /\ stmt = <<>>
    /\ grant' = <<Grant_with_grant_option(grant[1])>>
    /\ Returned("Grant.with_grant_option")
    /\ UNCHANGED <<dgrant, stmt>>
    /\ UNCHANGED diffVars

\* grant.on_objects(*objects, object_type=...), reached through on_tables and
\* on_schemas too; it raises when a privilege is not one of the object type's.
OnObjects ==
    /\ grant # <<>>
    /\ stmt = <<>>
    /\ \E object_type \in GrantTypes :
       \E objects \in ObjectArgs(object_type) :
          IF can_map_grant_names(to_variants(object_type), grant[1].grants)
          THEN /\ stmt' = <<Grant_on_objects(grant[1], objects, object_type)>>
               /\ grant' = <<>>
               /\ Returned("Grant.on_objects")
          ELSE /\ stmt' = stmt
               /\ grant' = grant
               /\ Raised("Grant.on_objects", "ValueError")
    /\ UNCHANGED dgrant
    /\ UNCHANGED diffVars

\* DefaultGrant.on_tables_in_schema(*in_schemas, for_role=...)
OnTablesInSchema ==
    /\ grant = <<>>
    /\ dgrant = <<>>
    /\ stmt = <<>>
    /\ \E in_schemas \in SchemaArgs, for_role \in {NoneValue, "Role(o2_read)"} :
          dgrant' = <<DefaultGrant_on_tables_in_schema(in_schemas, for_role)>>
    /\ Returned("DefaultGrant.on_tables_in_schema")
    /\ UNCHANGED <<grant, stmt>>
    /\ UNCHANGED diffVars

\* DefaultGrant.on_sequences_in_schema(*in_schemas, for_role=...)
OnSequencesInSchema ==
    /\ grant = <<>>
    /\ dgrant = <<>>
    /\ stmt = <<>>
    /\ \E in_schemas \in SchemaArgs, for_role \in {NoneValue, "Role(o2_read)"} :
          dgrant' = <<DefaultGrant_on_sequences_in_schema(in_schemas, for_role)>>
    /\ Returned("DefaultGrant.on_sequences_in_schema")
    /\ UNCHANGED <<grant, stmt>>
    /\ UNCHANGED diffVars

\* DefaultGrant.on_types_in_schema(*in_schemas, for_role=...)
OnTypesInSchema ==
    /\ grant = <<>>
    /\ dgrant = <<>>
    /\ stmt = <<>>
    /\ \E in_schemas \in SchemaArgs, for_role \in {NoneValue, "Role(o2_read)"} :
          dgrant' = <<DefaultGrant_on_types_in_schema(in_schemas, for_role)>>
    /\ Returned("DefaultGrant.on_types_in_schema")
    /\ UNCHANGED <<grant, stmt>>
    /\ UNCHANGED diffVars

\* DefaultGrant.on_functions_in_schema(*in_schemas, for_role=...)
OnFunctionsInSchema ==
    /\ grant = <<>>
    /\ dgrant = <<>>
    /\ stmt = <<>>
    /\ \E in_schemas \in SchemaArgs, for_role \in {NoneValue, "Role(o2_read)"} :
          dgrant' = <<DefaultGrant_on_functions_in_schema(in_schemas, for_role)>>
    /\ Returned("DefaultGrant.on_functions_in_schema")
    /\ UNCHANGED <<grant, stmt>>
    /\ UNCHANGED diffVars

\* default_grant.for_role(role)
DefaultForRole ==
    /\ dgrant # <<>>
    /\ stmt = <<>>
    /\ \E role \in RoleArgs : dgrant' = <<DefaultGrant_for_role(dgrant[1], role)>>
    /\ Returned("DefaultGrant.for_role")
    /\ UNCHANGED <<grant, stmt>>
    /\ UNCHANGED diffVars

\* default_grant.grant(grant, *grants, to=..., grant_option=...) with privilege
\* spellings; it raises when a spelling is not one of the object type's.
DefaultGrantGrant ==
    /\ dgrant # <<>>
    /\ stmt = <<>>
    /\ \E grants \in PrivArgs, to \in RoleArgs, grant_option \in BOOLEAN :
          IF can_map_grant_names(to_variants(dgrant[1].grant_type), grants)
          THEN /\ stmt' = <<DefaultGrant_grant(dgrant[1], grants, to, grant_option)>>
               /\ dgrant' = <<>>
               /\ Returned("DefaultGrant.grant")
          ELSE /\ stmt' = stmt
               /\ dgrant' = dgrant
               /\ Raised("DefaultGrant.grant", "ValueError")
    /\ UNCHANGED grant
    /\ UNCHANGED diffVars

\* default_grant.grant(grant, to=...) with a Grant, built by Grant.new and
\* possibly revoke(): the Grant is taken as it is, `to` is not looked at.
DefaultGrantGrantObject ==
    /\ dgrant # <<>>
    /\ stmt = <<>>
    /\ \E grants \in PrivArgs, to \in RoleArgs, grant_option \in BOOLEAN,
          revoked \in BOOLEAN :
          LET g == Grant_new(grants, to, grant_option)
          IN  stmt' = <<DefaultGrant_grant_Grant(
                            dgrant[1], IF revoked THEN Grant_revoke(g) ELSE g)>>
    /\ dgrant' = <<>>
    /\ Returned("DefaultGrant.grant(Grant)")
    /\ UNCHANGED grant
    /\ UNCHANGED diffVars

IsGrantStatement == stmt # <<>> /\ stmt[1].cls = "GrantStatement"
IsDefaultGrantStatement == stmt # <<>> /\ stmt[1].cls = "DefaultGrantStatement"

\* grant_statement.for_role(role)
ForRole ==
    /\ IsGrantStatement
    /\ \E role \in RoleArgs : stmt' = <<GrantStatement_for_role(stmt[1], role)>>
    /\ Returned("GrantStatement.for_role")
    /\ UNCHANGED <<grant, dgrant>>
    /\ UNCHANGED diffVars

\* default_grant_statement.for_role(role)
DefaultStatementForRole ==
    /\ IsDefaultGrantStatement
    /\ \E role \in RoleArgs : stmt' = <<DefaultGrantStatement_for_role(stmt[1], role)>>
    /\ Returned("DefaultGrantStatement.for_role")
    /\ UNCHANGED <<grant, dgrant>>
    /\ UNCHANGED diffVars

\* grant_statement.invert()
Invert ==
    /\ IsGrantStatement
    /\ stmt' = <<GrantStatement_invert(stmt[1])>>
    /\ Returned("GrantStatement.invert")
    /\ UNCHANGED <<grant, dgrant>>
    /\ UNCHANGED diffVars

\* default_grant_statement.invert()
DefaultInvert ==
    /\ IsDefaultGrantStatement
    /\ stmt' = <<DefaultGrantStatement_invert(stmt[1])>>
    /\ Returned("DefaultGrantStatement.invert")
    /\ UNCHANGED <<grant, dgrant>>
    /\ UNCHANGED diffVars

\* grant_statement.to_sql()
ToSql ==
    /\ IsGrantStatement
    /\ last' = "GrantStatement.to_sql"
    /\ IF can_render_privilege(stmt[1].grant, stmt[1].grant_type)
       THEN sql' = <<GrantStatement_to_sql(stmt[1])>> /\ err' = ""
       ELSE sql' = <<>> /\ err' = "ValueError"
    /\ exploded' = <<>>
    /\ UNCHANGED <<grant, dgrant, stmt, exploded>>
    /\ UNCHANGED diffVars

\* default_grant_statement.to_sql(); from_strings raises on a spelling that is not
\* one of the object type's (a Grant passed to DefaultGrant.grant is not coerced).
DefaultToSql ==
    /\ IsDefaultGrantStatement
    /\ last' = "DefaultGrantStatement.to_sql"
    /\ IF can_render_privilege(stmt[1].grant, stmt[1].default_grant.grant_type)
       THEN sql' = <<DefaultGrantStatement_to_sql(stmt[1])>> /\ err' = ""
       ELSE sql' = <<>> /\ err' = "ValueError"
    /\ exploded' = <<>>
    /\ UNCHANGED <<grant, dgrant, stmt, exploded>>
    /\ UNCHANGED diffVars

\* grant_statement.explode()
Explode ==
    /\ IsGrantStatement
    /\ last' = "GrantStatement.explode"
    /\ exploded' = <<GrantStatement_explode(stmt[1])>>
    /\ sql' = <<>>
    /\ err' = ""
    /\ UNCHANGED <<grant, dgrant, stmt>>
    /\ UNCHANGED diffVars

\* default_grant_statement.explode(): DefaultGrantStatement defines for_role, invert
\* and to_sql and nothing else, so the attribute lookup raises.
DefaultExplode ==
    /\ IsDefaultGrantStatement
    /\ last' = "DefaultGrantStatement.explode"
    /\ exploded' = <<>>
    /\ sql' = <<>>
    /\ err' = "AttributeError"
    /\ UNCHANGED <<grant, dgrant, stmt>>
    /\ UNCHANGED diffVars

\* ------------------------------------------------------------ comparison
\* An atomic unit: one privilege, for one grantee, on one object or schema.
MkUnit(cls, priv, grantee, grant_type, target, granting_role, grant_option) ==
    [cls |-> cls, priv |-> priv, grantee |-> grantee, grant_type |-> grant_type,
     target |-> target, granting_role |-> granting_role, grant_option |-> grant_option]

\* The unit of a single-privilege, single-target GrantStatement.
GrantStatementUnit(e) ==
    MkUnit("GrantStatement", e.grant.grants[1], e.grant.target_role, e.grant_type,
           e.targets[1], NoneValue, e.grant.grant_option)

\* The units of a DefaultGrantStatement: one per (privilege, schema) pair, keyed
\* by the granting role.
DefaultGrantStatementUnits(s) ==
    {MkUnit("DefaultGrantStatement", s.grant.grants[i], s.grant.target_role,
            s.default_grant.grant_type, s.default_grant.in_schemas[j],
            s.default_grant.target_role, s.grant.grant_option) :
        i \in 1..Len(s.grant.grants), j \in 1..Len(s.default_grant.in_schemas)}

\* Step 1 of compare: every declared statement exploded into atomic units.
DeclaredUnits(decl) ==
    UNION {IF decl[n].cls = "GrantStatement"
           THEN {GrantStatementUnit(e) : e \in Range(GrantStatement_explode(decl[n]))}
           ELSE DefaultGrantStatementUnits(decl[n]) : n \in 1..Len(decl)}

\* A scope filter that lets every unit through.
InScope_everything(unit, role) == TRUE

\* The scope filter: management is restricted to one role.
InScope(unit, role) == unit.grantee = role

RECURSIVE LexLess(_, _)
\* Lexicographic order on sequences of numbers of one length.
LexLess(a, b) ==
    /\ a # <<>>
    /\ \/ Head(a) < Head(b)
       \/ Head(a) = Head(b) /\ LexLess(Tail(a), Tail(b))

RECURSIVE SortByKey(_)
\* The second components of a set of <<key, value>> pairs, by ascending key.
SortByKey(pairs) ==
    IF pairs = {} THEN <<>>
    ELSE LET m == CHOOSE p \in pairs : \A q \in pairs \ {p} : LexLess(p[1], q[1])
         IN  <<m[2]>> \o SortByKey(pairs \ {m})

GrantTypeRank(grant_type) ==
    CASE grant_type = "FUNCTION" -> 1
      [] grant_type = "SCHEMA" -> 2
      [] grant_type = "SEQUENCE" -> 3
      [] grant_type = "TABLE" -> 4
      [] grant_type = "TYPE" -> 5

\* The group an atomic operation is aggregated into.
GroupOf(action, u) ==
    [action |-> action, cls |-> u.cls, grantee |-> u.grantee,
     grant_type |-> u.grant_type, target |-> u.target,
     granting_role |-> u.granting_role, grant_option |-> u.grant_option]

\* Step 6 of compare: object type, then target or schema name, then grantee;
\* the remaining fields make the order total.
GroupKey(g) ==
    <<GrantTypeRank(g.grant_type), Rank(g.target), Rank(g.grantee),
      IF g.action = "Grant" THEN 0 ELSE 1,
      IF g.cls = "GrantStatement" THEN 0 ELSE 1,
      IF g.grant_option THEN 1 ELSE 0,
      IF g.granting_role = NoneValue THEN 0 ELSE Rank(g.granting_role)>>

\* The statement of one aggregated operation, built with the builder operations;
\* a Revoke is the inverted statement.
OperationStatement(g, privs) ==
    LET grants == SortByKey({<<<<Rank(p)>>, p>> : p \in privs})
        built ==
            IF g.cls = "GrantStatement"
            THEN Grant_on_objects(Grant_new(grants, g.grantee, g.grant_option),
                                  <<g.target>>, g.grant_type)
            ELSE LET dg == DefaultGrant_in_schema(g.grant_type, <<g.target>>, NoneValue)
                 IN  DefaultGrant_grant(
                         IF g.granting_role = NoneValue THEN dg
                         ELSE DefaultGrant_for_role(dg, g.granting_role),
                         grants, g.grantee, g.grant_option)
    IN  IF g.action = "Grant" THEN built
        ELSE IF g.cls = "GrantStatement" THEN GrantStatement_invert(built)
        ELSE DefaultGrantStatement_invert(built)

\* compare(declared, live) under a scope filter: the sorted list of operations.
compare(decl, L, role) ==
    LET D == DeclaredUnits(decl)
        to_grant == D \ L
        to_revoke == {u \in L \ D : InScope(u, role)}
        atomic == {<<"Grant", u>> : u \in to_grant} \cup {<<"Revoke", u>> : u \in to_revoke}
        groups == {GroupOf(a[1], a[2]) : a \in atomic}
        Privs(g) == {a[2].priv : a \in {b \in atomic : GroupOf(b[1], b[2]) = g}}
    IN  SortByKey({<<GroupKey(g),
                     [action |-> g.action, stmt |-> OperationStatement(g, Privs(g))]>> :
                   g \in groups})

\* The atomic units a statement stands for.
AtomicUnits(s) ==
    IF s.cls = "GrantStatement"
    THEN {MkUnit("GrantStatement", s.grant.grants[i], s.grant.target_role, s.grant_type,
                 s.targets[j], NoneValue, s.grant.grant_option) :
            i \in 1..Len(s.grant.grants), j \in 1..Len(s.targets)}
    ELSE DefaultGrantStatementUnits(s)

\* An operation applied to the live privileges: a Grant adds the units of its
\* statement, a Revoke removes them.
ApplyOperation(L, op) ==
    IF op.action = "Revoke"
    THEN L \ AtomicUnits(op.stmt)
    ELSE L \cup AtomicUnits(op.stmt)

RECURSIVE ApplyAll(_, _)
\* The operations applied in the order of the list.
ApplyAll(L, oplist) ==
    IF oplist = <<>> THEN L ELSE ApplyAll(ApplyOperation(L, Head(oplist)), Tail(oplist))

\* What an application declares: select and insert on tables and on the future
\* tables of schema public, to the role the application's models are read with.
DeclarablePrivs == SeqsUpTo({"insert", "select"}, MaxPrivs)
DeclaredRoles == {"o2_read"}

\* The privileges someone else may have granted in the database: on table foo
\* and on the future tables of schema public, to either role.
ExternalUnits ==
    {MkUnit("GrantStatement", p, r, "TABLE", "foo", NoneValue, FALSE) :
        p \in to_variants("TABLE"), r \in RoleNames}
    \cup
    {MkUnit("DefaultGrantStatement", p, r, "TABLE", "public", NoneValue, FALSE) :
        p \in to_variants("TABLE"), r \in RoleNames}

\* The number of (privilege, target) pairs of a statement.
Pairs(s) ==
    Len(s.grant.grants) *
        (IF s.cls = "GrantStatement" THEN Len(s.targets)
         ELSE Len(s.default_grant.in_schemas))

RECURSIVE TotalPairs(_)
TotalPairs(decl) == IF decl = <<>> THEN 0 ELSE Pairs(Head(decl)) + TotalPairs(Tail(decl))

\* Grants().are(..., Grant.new(...).on_tables(...)): one more declared statement.
Declare ==
    /\ passes = 0
    /\ ops = <<>>
    /\ \E grants \in DeclarablePrivs, to \in DeclaredRoles :
       \E objects \in SeqsUpTo(TableNames, MaxTargets) :
          /\ TotalPairs(declared) + Len(grants) * Len(objects) <= MaxDeclaredUnits
          /\ declared' = Append(declared,
                Grant_on_objects(Grant_new(grants, to, FALSE), objects, "TABLE"))
    /\ UNCHANGED <<live, scope, ops, passes>>
    /\ UNCHANGED builderVars

\* Grants().are(..., DefaultGrant.on_tables_in_schema("public").grant(...)).
DeclareDefault ==
    /\ passes = 0
    /\ ops = <<>>
    /\ \E grants \in DeclarablePrivs, to \in DeclaredRoles :
          /\ TotalPairs(declared) + Len(grants) <= MaxDeclaredUnits
          /\ declared' = Append(declared,
                DefaultGrant_grant(
                    DefaultGrant_on_tables_in_schema(<<"public">>, NoneValue),
                    grants, to, FALSE))
    /\ UNCHANGED <<live, scope, ops, passes>>
    /\ UNCHANGED builderVars

\* A privilege granted in the database by someone else, before the first pass.
ExternalGrant ==
    /\ passes = 0
    /\ ops = <<>>
    /\ Cardinality(live) < MaxLive
    /\ \E u \in ExternalUnits \ live : live' = live \cup {u}
    /\ UNCHANGED <<declared, scope, ops, passes>>
    /\ UNCHANGED builderVars

\* One compare pass; the first pass fixes the scope filter.
Compare ==
    /\ ops = <<>>
    /\ passes < MaxPasses
    /\ \E role \in (IF passes = 0 THEN RoleNames ELSE {scope}) :
          /\ scope' = role
          /\ ops' = <<compare(declared, live, role)>>
    /\ passes' = passes + 1
    /\ UNCHANGED <<declared, live>>
    /\ UNCHANGED builderVars

\* The migration driver applies every operation of the last pass.
Apply ==
    /\ ops # <<>>
    /\ live' = ApplyAll(live, ops[1])
    /\ ops' = <<>>
    /\ UNCHANGED <<declared, scope, passes>>
    /\ UNCHANGED builderVars

BuilderNext ==
    \/ New
    \/ Revoke
    \/ WithGrantOption
    \/ OnObjects
    \/ OnTablesInSchema
    \/ OnSequencesInSchema
    \/ OnTypesInSchema
    \/ OnFunctionsInSchema
    \/ DefaultForRole
    \/ DefaultGrantGrant
    \/ DefaultGrantGrantObject
    \/ ForRole
    \/ DefaultStatementForRole
    \/ Invert
    \/ DefaultInvert
    \/ ToSql
    \/ DefaultToSql
    \/ Explode
    \/ DefaultExplode

Next == BuilderNext

Spec == Init /\ [][Next]_vars

DiffNext ==
    \/ Declare
    \/ DeclareDefault
    \/ ExternalGrant
    \/ Compare
    \/ Apply

SpecDiff == Init /\ [][DiffNext]_vars

\* ------------------------------------------------------------ properties
\* The atomic units of a declared collection, read off the statements' fields.
CollectionUnits(decl) == UNION {AtomicUnits(decl[n]) : n \in 1..Len(decl)}

\* The single-privilege, single-target statement of one atomic unit.
UnitStatement(u) ==
    IF u.cls = "GrantStatement"
    THEN MkGrantStatement(MkGrant(<<u.priv>>, u.grantee, u.grant_option, FALSE),
                          u.grant_type, <<u.target>>)
    ELSE MkDefaultGrantStatement(
             MkDefaultGrant(u.grant_type, <<u.target>>, u.granting_role),
             MkGrant(<<u.priv>>, u.grantee, u.grant_option, FALSE))

\* The one collection of single-unit statements, in a fixed order, that declares
\* exactly the units of U.
Canonical(U) ==
    SortByKey({<<GroupKey(GroupOf("Grant", u)) \o <<Rank(u.priv)>>, UnitStatement(u)>> :
               u \in U})

OpsOf(action) == {ops[1][k] : k \in {i \in 1..Len(ops[1]) : ops[1][i].action = action}}

\* C1: a compare pass against live privileges that are exactly the atomic units
\* of the declared collection emits no operation, whatever the scope filter; and
\* once the operations of one pass have been applied, the next pass emits none.
\* (Every declared collection is reached with nothing live and no pass made, and
\* the first conjunct is evaluated there.)
C1_Idempotent ==
    /\ (passes = 0 /\ live = {}) =>
          \A role \in RoleNames :
              compare(declared, CollectionUnits(declared), role) = <<>>
    /\ (passes >= 2 /\ ops # <<>>) => ops[1] = <<>>

\* A second pass came back empty after the first pass's grants were applied.
C1_Witness ==
    /\ passes = 2
    /\ ops = << <<>> >>
    /\ Len(declared) = 2
    /\ Cardinality(live) > MaxLive
    /\ CollectionUnits(declared) \subseteq live

\* C2: no Revoke operation of a compare pass names a grantee other than the role
\* the scope filter restricts management to.
C2_ScopeSafe ==
    ops # <<>> =>
        \A op \in OpsOf("Revoke") :
            /\ op.stmt.grant.target_role = scope
            /\ render_to_or_from(op.stmt.grant) = <<"FROM", scope>>

\* The pass revoked an undeclared grant of the managed role and left alone an
\* undeclared grant of the other role.
C2_Witness ==
    /\ ops # <<>>
    /\ OpsOf("Revoke") # {}
    /\ \E u \in live \ CollectionUnits(declared) : u.grantee # scope

\* C3: no Grant operation covers an atomic unit that is live, and no Revoke
\* operation covers an atomic unit that is declared.
C3_Minimal ==
    ops # <<>> =>
        /\ \A op \in OpsOf("Grant") : AtomicUnits(op.stmt) \cap live = {}
        /\ \A op \in OpsOf("Revoke") :
              AtomicUnits(op.stmt) \cap CollectionUnits(declared) = {}

\* The pass granted and revoked while a declared unit was live already.
C3_Witness ==
    /\ ops # <<>>
    /\ OpsOf("Grant") # {}
    /\ OpsOf("Revoke") # {}
    /\ live \cap CollectionUnits(declared) # {}

\* C4: every declared unit that is not live is covered by a Grant operation, and
\* every live unit that is not declared and is in scope by a Revoke operation.
C4_Complete ==
    ops # <<>> =>
        /\ \A u \in CollectionUnits(declared) \ live :
              \E op \in OpsOf("Grant") : u \in AtomicUnits(op.stmt)
        /\ \A u \in live \ CollectionUnits(declared) :
              InScope(u, scope) => \E op \in OpsOf("Revoke") : u \in AtomicUnits(op.stmt)

\* Declared select and insert on foo to o2_read, with SELECT live and an undeclared
\* default INSERT live: one Grant, of INSERT alone, and the default grant revoked.
C4_Witness ==
    /\ ops # <<>>
    /\ declared = <<Grant_on_objects(Grant_new(<<"select", "insert">>, "o2_read", FALSE),
                                     <<"foo">>, "TABLE")>>
    /\ live = {MkUnit("GrantStatement", "TableGrants.select", "o2_read", "TABLE", "foo",
                      NoneValue, FALSE),
               MkUnit("DefaultGrantStatement", "TableGrants.insert", "o2_read", "TABLE",
                      "public", NoneValue, FALSE)}
    /\ Len(ops[1]) = 2
    /\ ops[1][1].action = "Grant"
    /\ GrantStatement_to_sql(ops[1][1].stmt) =
          <<<<"GRANT">>, <<"INSERT">>, <<"ON", "TABLE">>, <<"foo">>, <<"TO", "o2_read">>>>
    /\ ops[1][2].action = "Revoke"
    /\ ops[1][2].stmt.cls = "DefaultGrantStatement"

\* C5: the operation list of a pass is the one the canonical collection of
\* single-unit statements with the same atomic units yields, so any two declared
\* collections with equal atomic units compare alike, however batched or ordered.
C5_BatchingIndependent ==
    ops # <<>> => ops[1] = compare(Canonical(CollectionUnits(declared)), live, scope)

\* The pass emitted operations for a collection holding a batched statement.
C5_Witness ==
    /\ ops # <<>>
    /\ ops[1] # <<>>
    /\ \E n \in 1..Len(declared) :
          /\ declared[n].cls = "GrantStatement"
          /\ Len(declared[n].targets) = 2
          /\ declared[n].targets[1] # declared[n].targets[2]

\* The number of positions (i, j) of a statement's privileges and targets that
\* hold the privilege p and the target t.
PairCount(s, p, t) ==
    Cardinality({i \in 1..Len(s.grant.grants) : s.grant.grants[i] = p})
        * Cardinality({j \in 1..Len(s.targets) : s.targets[j] = t})

\* C6: explode() returns len(privileges) * len(targets) statements, each with one
\* privilege and one target and the grantee, grant_option, revoke flag and object
\* type of the statement, and as many of them for a (privilege, target) pair as
\* the statement holds that pair.
C6_ExplodeIsProduct ==
    (last = "GrantStatement.explode") =>
        LET s == stmt[1]
            e == exploded[1]
        IN  /\ Len(e) = Len(s.grant.grants) * Len(s.targets)
            /\ \A k \in 1..Len(e) :
                  /\ e[k].cls = "GrantStatement"
                  /\ Len(e[k].grant.grants) = 1
                  /\ Len(e[k].targets) = 1
                  /\ e[k].grant.target_role = s.grant.target_role
                  /\ e[k].grant.grant_option = s.grant.grant_option
                  /\ e[k].grant.revoke_ = s.grant.revoke_
                  /\ e[k].grant_type = s.grant_type
            /\ \A p \in Range(s.grant.grants), t \in Range(s.targets) :
                  Cardinality({k \in 1..Len(e) :
                                 e[k].grant.grants = <<p>> /\ e[k].targets = <<t>>})
                      = PairCount(s, p, t)

\* A revoke with grant option of two privileges on two tables was exploded in four.
C6_Witness ==
    /\ last = "GrantStatement.explode"
    /\ stmt[1].grant.grants = <<"TableGrants.insert", "TableGrants.select">>
    /\ stmt[1].targets = <<"foo", "bar">>
    /\ stmt[1].grant.grant_option
    /\ stmt[1].grant.revoke_
    /\ Len(exploded[1]) = 4

\* C7: explode() on a DefaultGrantStatement returns one single-privilege,
\* single-schema DefaultGrantStatement per (privilege, schema) pair, each with the
\* granting role, grantee, grant_option and revoke flag of the statement.
C7_DefaultExplodeIsProduct ==
    (last = "DefaultGrantStatement.explode") =>
        /\ err = ""
        /\ exploded # <<>>
        /\ LET s == stmt[1]
               e == exploded[1]
           IN  /\ Len(e) = Len(s.grant.grants) * Len(s.default_grant.in_schemas)
               /\ \A k \in 1..Len(e) :
                     /\ e[k].cls = "DefaultGrantStatement"
                     /\ Len(e[k].grant.grants) = 1
                     /\ Len(e[k].default_grant.in_schemas) = 1
                     /\ e[k].grant.grants[1] \in Range(s.grant.grants)
                     /\ e[k].default_grant.in_schemas[1] \in Range(s.default_grant.in_schemas)
                     /\ e[k].default_grant.target_role = s.default_grant.target_role
                     /\ e[k].default_grant.grant_type = s.default_grant.grant_type
                     /\ e[k].grant.target_role = s.grant.target_role
                     /\ e[k].grant.grant_option = s.grant.grant_option
                     /\ e[k].grant.revoke_ = s.grant.revoke_
               /\ DefaultGrantStatementUnits(s)
                     = UNION {DefaultGrantStatementUnits(e[k]) : k \in 1..Len(e)}

\* C8: invert() returns the statement with the revoke flag negated and every other
\* field as it was, and inverting the result gives the statement back.
C8_InvertInvolution ==
    [][/\ (last' = "GrantStatement.invert") =>
            /\ stmt'[1] = [stmt[1] EXCEPT !.grant.revoke_ = ~stmt[1].grant.revoke_]
            /\ stmt'[1].grant.revoke_ # stmt[1].grant.revoke_
            /\ GrantStatement_invert(stmt'[1]) = stmt[1]
       /\ (last' = "DefaultGrantStatement.invert") =>
            /\ stmt'[1] = [stmt[1] EXCEPT !.grant.revoke_ = ~stmt[1].grant.revoke_]
            /\ stmt'[1].grant.revoke_ # stmt[1].grant.revoke_
            /\ DefaultGrantStatement_invert(stmt'[1]) = stmt[1]]_vars

\* A revoke statement was inverted into a grant.
C8_Witness ==
    /\ last = "GrantStatement.invert"
    /\ ~stmt[1].grant.revoke_
    /\ stmt[1].grant.grant_option
    /\ Len(stmt[1].targets) = 2

\* The rendered list ends with the WITH GRANT OPTION clause.
HasGrantOptionClause(result) == result[Len(result)] = <<"WITH GRANT OPTION">>

\* C9: the text of to_sql(), of a direct or of a default-privilege statement, ends
\* with WITH GRANT OPTION exactly when grant_option is set and the statement is not
\* a revoke.
C9_GrantOptionClause ==
    sql # <<>> =>
        (HasGrantOptionClause(sql[1])
            <=> (stmt[1].grant.grant_option /\ ~stmt[1].grant.revoke_))

\* The target lists that name the same targets as often, in any order.
Reorderings(targets) ==
    {o \in [1..Len(targets) -> Range(targets)] :
        \A t \in Range(targets) :
            Cardinality({i \in 1..Len(o) : o[i] = t})
                = Cardinality({i \in 1..Len(targets) : targets[i] = t})}

\* C10: to_sql() of a statement built by on_objects is the same text for every
\* order the target names are passed in, with the names in sorted order.
C10_TargetOrderIndependent ==
    (last = "GrantStatement.to_sql" /\ sql # <<>>) =>
        /\ \A objects \in Reorderings(stmt[1].targets) :
              GrantStatement_to_sql(
                  Grant_on_objects(stmt[1].grant, objects, stmt[1].grant_type)) = sql[1]
        /\ sql[1][4] = sorted(stmt[1].targets)

\* C11: the privilege tuple of the Grant that Grant.new returns is sorted and holds
\* each privilege at most once, so a call with the same privileges in any order and
\* multiplicity returns an equal Grant.
C11_NewCanonical ==
    (last = "Grant.new") =>
        LET g == grant[1]
        IN  /\ \A i \in 1..(Len(g.grants) - 1) : Rank(g.grants[i]) < Rank(g.grants[i + 1])
            /\ \A grants \in PrivArgs :
                  Range(grants) = Range(g.grants)
                      => Grant_new(grants, g.target_role, g.grant_option) = g

\* A plain resolved name: a string that is not an object of the HasName protocol.
PlainName(x) == x \notin HasNameObjects

\* C12: every role, schema and target field of the Grant, DefaultGrant and
\* statement built so far is a plain resolved name, never a name-bearing object.
C12_PlainNames ==
    /\ grant # <<>> => PlainName(grant[1].target_role)
    /\ dgrant # <<>> =>
          /\ PlainName(dgrant[1].target_role)
          /\ \A i \in 1..Len(dgrant[1].in_schemas) : PlainName(dgrant[1].in_schemas[i])
    /\ IsGrantStatement =>
          /\ PlainName(stmt[1].grant.target_role)
          /\ \A i \in 1..Len(stmt[1].targets) : PlainName(stmt[1].targets[i])
    /\ IsDefaultGrantStatement =>
          /\ PlainName(stmt[1].grant.target_role)
          /\ PlainName(stmt[1].default_grant.target_role)
          /\ \A i \in 1..Len(stmt[1].default_grant.in_schemas) :
                PlainName(stmt[1].default_grant.in_schemas[i])

\* The records r and s have the same fields and agree on all of them but `field`.
SameExcept(r, s, field) ==
    /\ DOMAIN r = DOMAIN s
    /\ \A f \in DOMAIN r \ {field} : r[f] = s[f]

\* C13: the result of revoke, with_grant_option, for_role and invert differs from
\* its receiver in the one field the transformation names and in nothing else:
\* privileges, targets, schemas, object type and the other flags are the receiver's.
C13_Frame ==
    [][/\ (last' = "Grant.revoke") =>
            /\ SameExcept(grant'[1], grant[1], "revoke_")
            /\ grant'[1].revoke_
       /\ (last' = "Grant.with_grant_option") =>
            /\ SameExcept(grant'[1], grant[1], "grant_option")
            /\ grant'[1].grant_option
       /\ (last' = "DefaultGrant.for_role") =>
            SameExcept(dgrant'[1], dgrant[1], "target_role")
       /\ (last' = "GrantStatement.for_role") =>
            /\ SameExcept(stmt'[1], stmt[1], "grant")
            /\ SameExcept(stmt'[1].grant, stmt[1].grant, "target_role")
       /\ (last' = "DefaultGrantStatement.for_role") =>
            /\ SameExcept(stmt'[1], stmt[1], "default_grant")
            /\ SameExcept(stmt'[1].default_grant, stmt[1].default_grant, "target_role")
       /\ (last' \in {"GrantStatement.invert", "DefaultGrantStatement.invert"}) =>
            /\ SameExcept(stmt'[1], stmt[1], "grant")
            /\ SameExcept(stmt'[1].grant, stmt[1].grant, "revoke_")]_vars

\* A Grant of two privileges with the grant option was revoked.
C13_Witness ==
    /\ last = "Grant.revoke"
    /\ grant # <<>>
    /\ grant[1].grant_option
    /\ grant[1].revoke_
    /\ Len(grant[1].grants) = 2

====
